---- MODULE Spec2Model ----
(***************************************************************************)
(* Model of backend/server.js: the Kafka consumer that scores transactions *)
(* and writes Transaction / Alert documents, and the HTTP handlers that    *)
(* publish transactions, review alerts and wipe the collections.           *)
(***************************************************************************)
EXTENDS Integers, Sequences, FiniteSets, TLC

(***************************************************************************)
(* Bounds of the model.                                                    *)
(***************************************************************************)
MaxMsgs == 2
MaxTicks == 1
MaxReviews == 2

(***************************************************************************)
(* IEEE-754 double arithmetic.  JavaScript numbers are doubles; the score  *)
(* is built with += on doubles and compared with double literals.  Every   *)
(* double that occurs (0 or 0.0625 <= x < 4) is an integer multiple of     *)
(* 2^-56; the double x is the pair <<hi, lo>> with                         *)
(*     x * 2^56 = hi * 2^29 + lo,   0 <= lo < 2^29.                        *)
(***************************************************************************)
Limb == 536870912
Digit == 16384

\* position of the discarded fraction relative to one half of 2^-56
Frac(r, den) ==
  IF r = 0 THEN "zero"
  ELSE IF 2 * r < den THEN "lt"
  ELSE IF 2 * r = den THEN "half" ELSE "gt"

\* spacing of the doubles around hi * 2^-27, in units of 2^-56
Ulps(hi) ==
  IF hi >= 268435456 THEN 32
  ELSE IF hi >= 134217728 THEN 16
  ELSE IF hi >= 67108864 THEN 8
  ELSE IF hi >= 33554432 THEN 4
  ELSE IF hi >= 16777216 THEN 2 ELSE 1

\* round to nearest, ties to even (53-bit significand)
RoundDouble(hi, lo, frac) ==
  LET m == Ulps(hi)
      r == lo % m
      base == lo - r
      up == IF m = 1
            THEN frac = "gt" \/ (frac = "half" /\ lo % 2 = 1)
            ELSE \/ 2 * r > m
                 \/ 2 * r = m /\ frac # "zero"
                 \/ 2 * r = m /\ frac = "zero" /\ (base \div m) % 2 = 1
      lo2 == IF up THEN base + m ELSE base
  IN IF lo2 = Limb THEN <<hi + 1, 0>> ELSE <<hi, lo2>>

\* the double denoted by the decimal literal num/den (den a power of ten)
Dbl(num, den) ==
  LET d0 == num \div den
      r0 == num % den
      d1 == (r0 * Digit) \div den
      r1 == (r0 * Digit) % den
      d2 == (r1 * Digit) \div den
      r2 == (r1 * Digit) % den
      d3 == (r2 * Digit) \div den
      r3 == (r2 * Digit) % den
      d4 == (r3 * Digit) \div den
      r4 == (r3 * Digit) % den
  IN RoundDouble(d0 * 134217728 + d1 * 8192 + (d2 \div 2),
                 (d2 % 2) * 268435456 + d3 * Digit + d4, Frac(r4, den))

\* a + b on doubles
fadd(a, b) ==
  LET s == a[2] + b[2]
  IN RoundDouble(a[1] + b[1] + (s \div Limb), s % Limb, "zero")

\* a >= b on doubles
fge(a, b) == a[1] > b[1] \/ (a[1] = b[1] /\ a[2] >= b[2])

Zero == <<0, 0>>

(***************************************************************************)
(* JavaScript values.  A value carries its typeof tag; a missing property  *)
(* reads as undefined.                                                     *)
(***************************************************************************)
Undefined == [t |-> "undefined"]
Null == [t |-> "null"]
Num(n) == [t |-> "number", v |-> n]
Str(s) == [t |-> "string", v |-> s]
Bool(b) == [t |-> "boolean", v |-> b]
Obj(o) == [t |-> "object", v |-> o]

\* ToBoolean
Truthy(x) ==
  CASE x.t = "undefined" -> FALSE
    [] x.t = "null" -> FALSE
    [] x.t = "boolean" -> x.v
    [] x.t = "number" -> x.v # 0
    [] x.t = "string" -> x.v # ""
    [] OTHER -> TRUE

\* a || b
Or(a, b) == IF Truthy(a) THEN a ELSE b

\* x === false
IsFalse(x) == x.t = "boolean" /\ x.v = FALSE

\* typeof x === 'number'
IsNumber(x) == x.t = "number"

\* list.includes(x) for a list of string literals
Includes(list, x) == x.t = "string" /\ x.v \in list

(***************************************************************************)
(* Dates.  A Date is a millisecond count or the invalid date (NaN time     *)
(* value).  The server's local time zone is taken to be UTC.               *)
(***************************************************************************)
HourMs == 3600000
Date(ms) == [valid |-> TRUE, ms |-> ms]
InvalidDate == [valid |-> FALSE, ms |-> 0]

\* a date-like string is <<"iso", ms>>; any other string is <<"text", ..>>
IsoStr(ms) == Str(<<"iso", ms>>)
BadDateStr == Str(<<"text">>)

\* new Date(x) for a payload value x
NewDate(x) ==
  CASE x.t = "string" -> IF x.v[1] = "iso" THEN Date(x.v[2]) ELSE InvalidDate
    [] x.t = "number" -> Date(x.v)
    [] OTHER -> InvalidDate

\* d.getHours(): <<h>>, or <<>> for NaN
GetHours(d) == IF d.valid THEN <<(d.ms \div HourMs) % 24>> ELSE <<>>

(***************************************************************************)
(* Transaction payloads: the object JSON.parse returns.  A merchant string *)
(* is the sequence of its parts, so that String.includes can be computed.  *)
(***************************************************************************)
Fields ==
  {"id", "transactionId", "accountId", "amount", "merchant", "category",
   "location", "cvvMatch", "avsMatch", "device", "isVPN", "isTor",
   "previousDeclines", "accountAge", "timestamp"}

EmptyTxn == [f \in Fields |-> Undefined]

\* the object with the given properties set
With(txn, props) ==
  [f \in Fields |-> IF f \in DOMAIN props THEN props[f] ELSE txn[f]]

Location(risk, country) == Obj([risk |-> risk, country |-> country])

\* txn.location?.risk
LocationRisk(txn) ==
  IF txn.location.t = "object" THEN txn.location.v.risk ELSE Undefined

\* s.includes(m) for a string given by its parts
StrIncludes(parts, m) == \E i \in 1..Len(parts) : parts[i] = m

suspiciousMerchants ==
  {"UNKNOWN_MERCHANT", "CRYPTO_EXCHANGE", "OFFSHORE_CASINO", "HIGH_RISK_VENDOR"}
suspiciousCategories == {"GAMBLING", "CRYPTO", "WIRE_TRANSFER", "GIFT_CARDS"}
suspiciousDevices ==
  {"Emulator", "Unknown Device", "Rooted Android", "Jailbroken iPhone"}

(***************************************************************************)
(* The rule weights and thresholds, as the double literals of the source.  *)
(***************************************************************************)
W_GEOGRAPHY == Dbl(5, 10)
W_CVV == Dbl(3, 10)
W_AVS == Dbl(15, 100)
W_AMOUNT_HIGH == Dbl(2, 10)
W_AMOUNT_MEDIUM == Dbl(1, 10)
W_MERCHANT == Dbl(3, 10)
W_CATEGORY == Dbl(25, 100)
W_DEVICE == Dbl(2, 10)
W_VPN == Dbl(15, 100)
W_DECLINES == Dbl(3, 10)
W_NEW_ACCOUNT == Dbl(1, 10)
W_NIGHT == Dbl(8, 100)

T_CRITICAL == Dbl(7, 10)
T_HIGH == Dbl(5, 10)
T_MEDIUM == Dbl(3, 10)
T_ALERT == Dbl(4, 10)

HighAmount == 100000
MediumAmount == 50000
MinDeclines == 3
NewAccountDays == 30
NightFrom == 23
NightTo == 5

Indicator(code, message) == [code |-> code, message |-> message]

\* score = w in place of score += w
Fire_Assign(acc, cond, w, ind) ==
  CHOOSE r \in {IF cond
                THEN [score |-> w, indicators |-> Append(a.indicators, ind)]
                ELSE a : a \in {acc}} : TRUE

\* indicators.unshift(ind) in place of indicators.push(ind)
Fire_Unshift(acc, cond, w, ind) ==
  CHOOSE r \in {IF cond
                THEN [score |-> fadd(a.score, w), indicators |-> <<ind>> \o a.indicators]
                ELSE a : a \in {acc}} : TRUE

\* one rule of the evaluator: if (cond) { score += w; indicators.push(ind) }
\* (a is the value of acc, computed once)
Fire(acc, cond, w, ind) ==
  CHOOSE r \in {IF cond
                THEN [score |-> fadd(a.score, w), indicators |-> Append(a.indicators, ind)]
                ELSE a : a \in {acc}} : TRUE

\* the amount rule as two independent tests
AmountRule_Both(acc, txn) ==
  Fire(Fire(acc, IsNumber(txn.amount) /\ txn.amount.v > HighAmount, W_AMOUNT_HIGH,
            Indicator("UNUSUAL_TRANSACTION_AMOUNT", <<"High amount", txn.amount.v>>)),
       IsNumber(txn.amount) /\ txn.amount.v > MediumAmount, W_AMOUNT_MEDIUM,
       Indicator("UNUSUAL_TRANSACTION_AMOUNT", <<"Medium amount", txn.amount.v>>))

\* the amount rule: if (> 100000) {..} else if (> 50000) {..}
AmountRule(acc, txn) ==
  IF IsNumber(txn.amount) /\ txn.amount.v > HighAmount
  THEN Fire(acc, TRUE, W_AMOUNT_HIGH,
            Indicator("UNUSUAL_TRANSACTION_AMOUNT", <<"High amount", txn.amount.v>>))
  ELSE IF IsNumber(txn.amount) /\ txn.amount.v > MediumAmount
  THEN Fire(acc, TRUE, W_AMOUNT_MEDIUM,
            Indicator("UNUSUAL_TRANSACTION_AMOUNT", <<"Medium amount", txn.amount.v>>))
  ELSE acc

\* const txnTime = txn.timestamp ? new Date(txn.timestamp) : new Date()
TxnTime(txn, nowMs) ==
  IF Truthy(txn.timestamp) THEN NewDate(txn.timestamp) ELSE Date(nowMs)

\* hour >= 23 || hour <= 5; every comparison with NaN is false
NightHour(h) == h # <<>> /\ (h[1] >= NightFrom \/ h[1] <= NightTo)

\* the thresholds open on their lower bound: > in place of >=
RiskLevel_Open(score) ==
  IF fge(score, T_CRITICAL) /\ score # T_CRITICAL THEN "CRITICAL"
  ELSE IF fge(score, T_HIGH) /\ score # T_HIGH THEN "HIGH"
  ELSE IF fge(score, T_MEDIUM) /\ score # T_MEDIUM THEN "MEDIUM" ELSE "LOW"

\* score >= 0.7 ? 'CRITICAL' : score >= 0.5 ? 'HIGH' : score >= 0.3 ? 'MEDIUM' : 'LOW'
RiskLevel(score) ==
  IF fge(score, T_CRITICAL) THEN "CRITICAL"
  ELSE IF fge(score, T_HIGH) THEN "HIGH"
  ELSE IF fge(score, T_MEDIUM) THEN "MEDIUM" ELSE "LOW"

\* the rules of eachMessage, in the order of the source
Evaluate(txn, nowMs) ==
  LET a0 == [score |-> Zero, indicators |-> <<>>]
      a1 == Fire(a0, LocationRisk(txn) = Str("high"), W_GEOGRAPHY,
                 Indicator("HIGH_RISK_GEOGRAPHY",
                           <<"High risk geography", Or(txn.location.v.country, Str("unknown"))>>))
      a2 == Fire(a1, IsFalse(txn.cvvMatch), W_CVV,
                 Indicator("CVV_VERIFICATION_FAILED", <<"CVV verification failed">>))
      a3 == Fire(a2, IsFalse(txn.avsMatch), W_AVS,
                 Indicator("ADDRESS_VERIFICATION_FAILED", <<"Address verification failed">>))
      a4 == AmountRule(a3, txn)
      a5 == Fire(a4, txn.merchant.t = "string"
                     /\ \E m \in suspiciousMerchants : StrIncludes(txn.merchant.v, m),
                 W_MERCHANT,
                 Indicator("HIGH_RISK_MERCHANT", <<"Suspicious merchant", txn.merchant>>))
      a6 == Fire(a5, Includes(suspiciousCategories, txn.category), W_CATEGORY,
                 Indicator("HIGH_RISK_MERCHANT_CATEGORY", <<"Category", txn.category>>))
      a7 == Fire(a6, Includes(suspiciousDevices, txn.device), W_DEVICE,
                 Indicator("SUSPICIOUS_DEVICE", <<"Suspicious device detected">>))
      a8 == Fire(a7, Truthy(txn.isVPN) \/ Truthy(txn.isTor), W_VPN,
                 Indicator("VPN_OR_PROXY_DETECTED",
                           IF Truthy(txn.isTor) THEN <<"Tor network detected">>
                           ELSE <<"VPN/proxy detected">>))
      a9 == Fire(a8, IsNumber(txn.previousDeclines)
                     /\ txn.previousDeclines.v >= MinDeclines,
                 W_DECLINES,
                 Indicator("CARD_TESTING_PATTERN", <<"Previous declines", txn.previousDeclines.v>>))
      a10 == Fire(a9, IsNumber(txn.accountAge) /\ txn.accountAge.v < NewAccountDays,
                  W_NEW_ACCOUNT, Indicator("NEW_ACCOUNT_RISK", <<"New account risk">>))
      txnTime == TxnTime(txn, nowMs)
      a11 == Fire(a10, NightHour(GetHours(txnTime)), W_NIGHT,
                  Indicator("UNUSUAL_TRANSACTION_TIME", <<"Night-time transaction">>))
  IN CHOOSE r \in {[score |-> a.score, indicators |-> a.indicators, txnTime |-> txnTime,
                     riskLevel |-> RiskLevel(a.score)] : a \in {a11}} : TRUE

(***************************************************************************)
(* Kafka messages and JSON.                                                *)
(***************************************************************************)
\* JSON.stringify(body): the text of a JSON document
JsonStringify(body) == [kind |-> "json", doc |-> body]

\* bytes that are no JSON text, and the JSON text "null"
GarbageBytes == [kind |-> "bytes"]
JsonNullText == [kind |-> "json", doc |-> Null]

\* JSON.parse(text): the document, or a SyntaxError
JsonParse(text) ==
  IF text.kind = "json" THEN [ok |-> TRUE, value |-> text.doc] ELSE [ok |-> FALSE]

(***************************************************************************)
(* Mongoose documents.  msgOffset is the Kafka offset of the message that  *)
(* produced a document; the code does not store it, the properties use it. *)
(***************************************************************************)
\* the document passed to Transaction.create
TransactionDoc(txn, transactionId, a, off) ==
  [transactionId |-> transactionId,
   accountId |-> txn.accountId,
   amount |-> txn.amount,
   merchant |-> txn.merchant,
   category |-> txn.category,
   location |-> txn.location,
   mlScore |-> a.score,
   riskLevel |-> a.riskLevel,
   fraudIndicators |-> [i \in 1..Len(a.indicators) |-> a.indicators[i].message],
   timestamp |-> a.txnTime,
   msgOffset |-> off]

\* `ALERT${Date.now()}${Math.random().toString(36).slice(2, 7)}`
AlertId(ms, suffix) == <<"ALERT", ms, suffix>>

\* the document passed to Alert.create; the schema defaults fill createdAt
AlertDoc(c, ms, suffix, off) ==
  [alertId |-> AlertId(ms, suffix),
   transactionId |-> c.transactionId,
   transaction |-> c.txn,
   mlScore |-> [score |-> c.score],
   riskLevel |-> c.riskLevel,
   reasons |-> c.indicators,
   status |-> Str("PENDING"),
   assignedTo |-> Undefined,
   reviewedAt |-> Undefined,
   action |-> Undefined,
   comments |-> Undefined,
   createdAt |-> Date(ms),
   msgOffset |-> off]

\* schema validation of a Transaction: a Date path rejects the invalid date
TransactionValid(doc) == doc.timestamp.valid

(***************************************************************************)
(* Inputs.                                                                 *)
(***************************************************************************)
Noon == 12 * HourMs
TwoAm == 2 * HourMs
\* the clock starts one millisecond before 23:00
StartMs == 23 * HourMs - 1

\* no id and no transactionId; the rules would give 0.80
NoIdBody ==
  With(EmptyTxn, [location |-> Location(Str("high"), Str("NG")), cvvMatch |-> Bool(FALSE)])
\* 0.30 + 0.08 = 0.38
BelowBody ==
  With(EmptyTxn, [id |-> Str("T1"), cvvMatch |-> Bool(FALSE), timestamp |-> IsoStr(TwoAm)])
\* 0.30 + 0.10 = 0.40, and 0.08 more at night: no timestamp
EdgeBody ==
  With(EmptyTxn, [transactionId |-> Str("T2"), cvvMatch |-> Bool(FALSE),
                  accountAge |-> Num(10)])
\* a timestamp that is no date
BadTsBody ==
  With(EmptyTxn, [id |-> Str("T4"), location |-> Location(Str("high"), Str("NG")),
                  timestamp |-> BadDateStr])

Bodies == {NoIdBody, BelowBody, EdgeBody, BadTsBody}
ForeignValues == {GarbageBytes, JsonNullText}
RandSuffixes == {"k3x9q", "p07ab"}
ReviewActions == {"APPROVED", "BLOCKED"}
MissingAlertId == AlertId(0, "none")

(***************************************************************************)
(* State.                                                                  *)
(***************************************************************************)
VARIABLES
  proc,          \* "starting" | "running" | "exited": the Kafka start-up block
  queue,         \* the messages of topic 'transactions' from the consumer's offset on
  offset,        \* number of messages the consumer has resolved
  pc,            \* eachMessage: "idle" | "saveTxn" | "saveAlert"
  cur,           \* the locals of the eachMessage call in progress
  transactions,  \* the Transaction collection, in insertion order
  alerts,        \* the Alert collection, in insertion order
  now,           \* the clock, in milliseconds
  resp,          \* the last HTTP exchange: the request and the response sent
  cleanup,       \* the DELETE /api/cleanup/all request in progress
  out,           \* the console lines of the latest message eachMessage took up
  reviews,       \* the PUT /api/alerts requests that updated an alert, oldest first
  peer           \* a second eachMessage call and its partition, while it is not running

vars ==
  <<proc, queue, offset, pc, cur, transactions, alerts, now, resp, cleanup, out, reviews, peer>>

NoCur == [txn |-> Null]
NoResp == [op |-> "none"]
NoCleanup == [pc |-> "idle"]
NoOut == [offset |-> 0, lines |-> <<>>]
NoPeer == [queue |-> <<>>, offset |-> 0, pc |-> "idle", cur |-> NoCur, out |-> NoOut]

Init ==
  /\ proc = "starting"
  /\ queue = <<>>
  /\ offset = 0
  /\ pc = "idle"
  /\ cur = NoCur
  /\ transactions = <<>>
  /\ alerts = <<>>
  /\ now = StartMs
  /\ resp = NoResp
  /\ cleanup = NoCleanup
  /\ out = NoOut
  /\ reviews = <<>>
  /\ peer = NoPeer

(***************************************************************************)
(* Start-up: producer.connect, consumer.connect, consumer.subscribe.       *)
(***************************************************************************)
KafkaConnected ==
  /\ proc = "starting"
  /\ proc' = "running"
  /\ UNCHANGED <<queue, offset, pc, cur, transactions, alerts, now, resp, cleanup, out, reviews>>
  /\ UNCHANGED peer

\* the catch of the start-up block: process.exit(1)
KafkaConnectFailed ==
  /\ proc = "starting"
  /\ proc' = "exited"
  /\ UNCHANGED <<queue, offset, pc, cur, transactions, alerts, now, resp, cleanup, out, reviews>>
  /\ UNCHANGED peer

\* time passes
Tick ==
  /\ proc # "exited"
  /\ now < StartMs + MaxTicks
  /\ now' = now + 1
  /\ UNCHANGED <<proc, queue, offset, pc, cur, transactions, alerts, resp, cleanup, out, reviews>>
  /\ UNCHANGED peer

\* another producer writes to the topic the consumer is subscribed to
ForeignPublish ==
  /\ proc = "running"
  /\ offset + Len(queue) < MaxMsgs
  /\ \E v \in ForeignValues : queue' = Append(queue, [value |-> v])
  /\ UNCHANGED <<proc, offset, pc, cur, transactions, alerts, now, resp, cleanup, out, reviews>>
  /\ UNCHANGED peer

(***************************************************************************)
(* consumer.run / eachMessage.                                             *)
(***************************************************************************)
\* the lines printed so far for the message at offset + 1
Lines == IF out.offset = offset + 1 THEN out.lines ELSE <<>>

\* console.info / console.warn / console.error while handling that message
Console(lines) == out' = [offset |-> offset + 1, lines |-> Lines \o lines]

\* eachMessage resolves: the consumer commits the offset and fetches the next
Resolve(lines) ==
  /\ offset' = offset + 1
  /\ queue' = Tail(queue)
  /\ pc' = "idle"
  /\ cur' = NoCur
  /\ Console(lines)

\* no catch block: the call rejects, the offset is not committed and the
\* message is fetched again
Caught_Rethrow(message) ==
  /\ pc' = "idle"
  /\ cur' = NoCur
  /\ UNCHANGED <<offset, queue, out>>

\* the catch block logs and rethrows: as above, with the console line
Caught_Redeliver(message) ==
  /\ pc' = "idle"
  /\ cur' = NoCur
  /\ out' = [offset |-> offset + 1, lines |-> <<"error: " \o message>>]
  /\ UNCHANGED <<offset, queue>>

\* the catch block of eachMessage: console.error(err.message), then the call resolves
Caught(message) == Resolve(<<"error: " \o message>>)

\* the identifier check left out
MissingIdentifier_Off(transactionId) == FALSE

\* !transactionId
MissingIdentifier(transactionId) == ~Truthy(transactionId)

\* score > 0.4
AlertDue_Strict(score) == fge(score, T_ALERT) /\ score # T_ALERT

\* score >= 0.4
AlertDue(score) == fge(score, T_ALERT)

\* an insert that skips a document whose transactionId is already stored
InsertOne_Unique(coll, doc) ==
  IF \E i \in 1..Len(coll) : coll[i].transactionId = doc.transactionId
  THEN coll
  ELSE Append(coll, doc)

\* an insert that replaces the stored document of the same transactionId
InsertOne_Upsert(coll, doc) ==
  IF \E i \in 1..Len(coll) : coll[i].transactionId = doc.transactionId
  THEN [i \in 1..Len(coll) |->
          IF coll[i].transactionId = doc.transactionId THEN doc ELSE coll[i]]
  ELSE Append(coll, doc)

\* Model.create(doc): one more document, whatever the collection holds
InsertOne(coll, doc) == Append(coll, doc)

\* from the call to the first await (Transaction.create)
EachMessage ==
  /\ proc = "running"
  /\ pc = "idle"
  /\ queue # <<>>
  /\ LET message == Head(queue)
         parsed == JsonParse(message.value)
     IN IF ~parsed.ok
        THEN Caught("SyntaxError")
        ELSE IF parsed.value = Null
        THEN Caught("TypeError")
        ELSE LET txn == parsed.value
                 transactionId == Or(txn.id, txn.transactionId)
             IN IF MissingIdentifier(transactionId)
                THEN Resolve(<<"skip">>)
                ELSE \E a \in {Evaluate(txn, now)} :
                     /\ pc' = "saveTxn"
                     /\ cur' = [txn |-> txn, transactionId |-> transactionId,
                                score |-> a.score, indicators |-> a.indicators,
                                riskLevel |-> a.riskLevel, txnTime |-> a.txnTime,
                                doc |-> TransactionDoc(txn, transactionId, a, offset + 1)]
                     /\ Console(<<"processing">>)
                     /\ UNCHANGED <<offset, queue>>
  /\ UNCHANGED <<proc, transactions, alerts, now, resp, cleanup, reviews>>
  /\ UNCHANGED peer

\* both documents written in one store transaction
SaveTransaction_Atomic ==
  /\ proc = "running"
  /\ pc = "saveTxn"
  /\ \E stored \in BOOLEAN, suffix \in RandSuffixes :
       IF ~TransactionValid(cur.doc)
       THEN /\ Caught("ValidationError")
            /\ UNCHANGED <<transactions, alerts>>
       ELSE IF ~stored
       THEN /\ Caught("StoreError")
            /\ UNCHANGED <<transactions, alerts>>
       ELSE /\ transactions' = InsertOne(transactions, cur.doc)
            /\ IF AlertDue(cur.score)
               THEN /\ alerts' = InsertOne(alerts, AlertDoc(cur, now, suffix, offset + 1))
                    /\ Resolve(<<"saved", "alert">>)
               ELSE /\ alerts' = alerts
                    /\ Resolve(<<"saved", "clean">>)
  /\ UNCHANGED <<proc, now, resp, cleanup, reviews>>
  /\ UNCHANGED peer

\* await Transaction.create(..) settles; on success the code runs on to
\* Alert.create(..) or to the 'marked clean' line
SaveTransaction ==
  /\ proc = "running"
  /\ pc = "saveTxn"
  /\ \E stored \in BOOLEAN :
       IF ~TransactionValid(cur.doc)
       THEN /\ Caught("ValidationError")
            /\ UNCHANGED transactions
       ELSE IF ~stored
       THEN /\ Caught("StoreError")
            /\ UNCHANGED transactions
       ELSE /\ transactions' = InsertOne(transactions, cur.doc)
            /\ IF AlertDue(cur.score)
               THEN /\ \E suffix \in RandSuffixes :
                         cur' = [cur EXCEPT !.doc = AlertDoc(cur, now, suffix, offset + 1)]
                    /\ pc' = "saveAlert"
                    /\ Console(<<"saved">>)
                    /\ UNCHANGED <<offset, queue>>
               ELSE Resolve(<<"saved", "clean">>)
  /\ UNCHANGED <<proc, alerts, now, resp, cleanup, reviews>>
  /\ UNCHANGED peer

\* await Alert.create(..) settles
SaveAlert ==
  /\ proc = "running"
  /\ pc = "saveAlert"
  /\ \E stored \in BOOLEAN :
       IF stored
       THEN /\ alerts' = InsertOne(alerts, cur.doc)
            /\ Resolve(<<"alert">>)
       ELSE /\ Caught("StoreError")
            /\ UNCHANGED alerts
  /\ UNCHANGED <<proc, transactions, now, resp, cleanup, reviews>>
  /\ UNCHANGED peer

(***************************************************************************)
(* HTTP handlers.                                                          *)
(***************************************************************************)
\* the message is sent again after the first send
Published_Twice(body) == <<[value |-> JsonStringify(body)], [value |-> JsonStringify(body)]>>

\* messages: [{ value: JSON.stringify(req.body) }]
Published(body) == <<[value |-> JsonStringify(body)]>>

\* POST /api/transactions
Submit ==
  /\ proc # "exited"
  /\ offset + Len(queue) < MaxMsgs
  /\ \E body \in Bodies, sent \in BOOLEAN :
       IF sent /\ proc = "running"
       THEN /\ queue' = queue \o Published(body)
            /\ resp' = [op |-> "submit", body |-> body, status |-> 200, success |-> TRUE]
       ELSE /\ resp' = [op |-> "submit", body |-> body, status |-> 500, success |-> FALSE]
            /\ UNCHANGED queue
  /\ UNCHANGED <<proc, offset, pc, cur, transactions, alerts, now, cleanup, out, reviews>>
  /\ UNCHANGED peer

\* index of the first alert with the given alertId, 0 if there is none
FindOne(coll, alertId) ==
  IF \E i \in 1..Len(coll) : coll[i].alertId = alertId
  THEN CHOOSE i \in 1..Len(coll) :
         /\ coll[i].alertId = alertId
         /\ \A j \in 1..(i - 1) : coll[j].alertId # alertId
  ELSE 0

\* an update document without the status field
ReviewUpdate_NoStatus(alert, action, comments, assignedTo, ms) ==
  [alert EXCEPT !.action = action, !.comments = comments,
                !.assignedTo = assignedTo, !.reviewedAt = Date(ms)]

\* a review that is refused once the alert has left PENDING
ReviewUpdate_Once(alert, action, comments, assignedTo, ms) ==
  IF alert.status # Str("PENDING")
  THEN alert
  ELSE [alert EXCEPT !.status = action, !.action = action, !.comments = comments,
                     !.assignedTo = assignedTo, !.reviewedAt = Date(ms)]

\* a review that also lowers the riskLevel of the alert it closes
ReviewUpdate_Downgrade(alert, action, comments, assignedTo, ms) ==
  [alert EXCEPT !.status = action, !.action = action, !.comments = comments,
                !.assignedTo = assignedTo, !.reviewedAt = Date(ms),
                !.riskLevel = "LOW"]

\* the update document of PUT /api/alerts/:alertId applied to one alert
ReviewUpdate(alert, action, comments, assignedTo, ms) ==
  [alert EXCEPT !.status = action, !.action = action, !.comments = comments,
                !.assignedTo = assignedTo, !.reviewedAt = Date(ms)]

\* PUT /api/alerts/:alertId
Review ==
  /\ proc # "exited"
  /\ Len(reviews) < MaxReviews
  /\ \E alertId \in {alerts[i].alertId : i \in 1..Len(alerts)} \cup {MissingAlertId},
        action \in ReviewActions, up \in BOOLEAN :
       LET i == FindOne(alerts, alertId)
           body == [action |-> Str(action), comments |-> Str(<<"note", Len(reviews) + 1>>),
                    assignedTo |-> Str("analyst1")]
           answer(status, more) ==
             [op |-> "review", alertId |-> alertId, body |-> body, status |-> status] @@ more
       IN IF ~up
          THEN /\ resp' = answer(500, [success |-> FALSE])
               /\ UNCHANGED <<alerts, reviews>>
          ELSE IF i = 0
          THEN /\ resp' = answer(200, [success |-> TRUE, data |-> Null])
               /\ UNCHANGED <<alerts, reviews>>
          ELSE LET updated == ReviewUpdate(alerts[i], body.action, body.comments,
                                           body.assignedTo, now)
               IN /\ alerts' = [alerts EXCEPT ![i] = updated]
                  /\ reviews' = Append(reviews, [alertId |-> alertId, body |-> body,
                                                 at |-> now])
                  /\ resp' = answer(200, [success |-> TRUE, data |-> updated])
  /\ UNCHANGED <<proc, queue, offset, pc, cur, transactions, now, cleanup, out>>
  /\ UNCHANGED peer

CLEANUP_PASSWORD == "140301"
Passwords == {Undefined, Str(""), Str("letmein"), Str(CLEANUP_PASSWORD)}

\* if (!password)
PasswordMissing(password) == ~Truthy(password)

\* the comparison with the secret left out
PasswordWrong_Skipped(password) == FALSE

\* if (password !== CLEANUP_PASSWORD)
PasswordWrong(password) == password # Str(CLEANUP_PASSWORD)

\* DELETE /api/cleanup/all, up to the first await
CleanupRequest ==
  /\ proc # "exited"
  /\ cleanup.pc = "idle"
  /\ \E password \in Passwords :
       IF PasswordMissing(password)
       THEN /\ resp' = [op |-> "cleanup", password |-> password, status |-> 401,
                        success |-> FALSE, error |-> "MISSING_PASSWORD"]
            /\ UNCHANGED cleanup
       ELSE IF PasswordWrong(password)
       THEN /\ resp' = [op |-> "cleanup", password |-> password, status |-> 403,
                        success |-> FALSE, error |-> "INVALID_PASSWORD"]
            /\ UNCHANGED cleanup
       ELSE /\ cleanup' = [pc |-> "deleteTransactions", password |-> password]
            /\ UNCHANGED resp
  /\ UNCHANGED <<proc, queue, offset, pc, cur, transactions, alerts, now, out, reviews>>
  /\ UNCHANGED peer

\* await Transaction.deleteMany({})
CleanupTransactions ==
  /\ proc # "exited"
  /\ cleanup.pc = "deleteTransactions"
  /\ transactions' = <<>>
  /\ cleanup' = [pc |-> "deleteAlerts", password |-> cleanup.password,
                 deletedTransactions |-> Len(transactions)]
  /\ UNCHANGED <<proc, queue, offset, pc, cur, alerts, now, resp, out, reviews>>
  /\ UNCHANGED peer

\* await Alert.deleteMany({})
CleanupAlerts ==
  /\ proc # "exited"
  /\ cleanup.pc = "deleteAlerts"
  /\ alerts' = <<>>
  /\ cleanup' = [pc |-> "count", password |-> cleanup.password,
                 deletedTransactions |-> cleanup.deletedTransactions,
                 deletedAlerts |-> Len(alerts)]
  /\ UNCHANGED <<proc, queue, offset, pc, cur, transactions, now, resp, out, reviews>>
  /\ UNCHANGED peer

\* the two countDocuments calls and res.json
CleanupRespond ==
  /\ proc # "exited"
  /\ cleanup.pc = "count"
  /\ resp' = [op |-> "cleanup", password |-> cleanup.password, status |-> 200,
              success |-> TRUE,
              deleted |-> [transactions |-> cleanup.deletedTransactions,
                           alerts |-> cleanup.deletedAlerts],
              remaining |-> [transactions |-> Len(transactions), alerts |-> Len(alerts)]]
  /\ cleanup' = NoCleanup
  /\ UNCHANGED <<proc, queue, offset, pc, cur, transactions, alerts, now, out, reviews>>
  /\ UNCHANGED peer

\* a store call of the cleanup rejects: the catch answers 500
CleanupFailed ==
  /\ proc # "exited"
  /\ cleanup.pc \in {"deleteTransactions", "deleteAlerts", "count"}
  /\ resp' = [op |-> "cleanup", password |-> cleanup.password, status |-> 500,
              success |-> FALSE]
  /\ cleanup' = NoCleanup
  /\ UNCHANGED <<proc, queue, offset, pc, cur, transactions, alerts, now, out, reviews>>
  /\ UNCHANGED peer

(***************************************************************************)
(* The rule evaluator and the classifier on their own.                     *)
(***************************************************************************)
\* the largest double below x
PredDouble(x) ==
  IF x[2] = 0 THEN <<x[1] - 1, Limb - Ulps(x[1] - 1)>> ELSE <<x[1], x[2] - Ulps(x[1])>>

\* the scores 0.0000, 0.0001, .. 1.2000 and the doubles next below the thresholds
ScoreSamples(unit) ==
  {Dbl(k, unit) : k \in 0..(unit + unit \div 5)}
    \cup {PredDouble(T_CRITICAL), PredDouble(T_HIGH), PredDouble(T_MEDIUM), PredDouble(T_ALERT)}

ClassifyInit ==
  /\ proc = "running"
  /\ queue = <<>>
  /\ offset = 0
  /\ pc = "classify"
  /\ \E s \in ScoreSamples(10000) : cur = [score |-> s, riskLevel |-> "none"]
  /\ transactions = <<>>
  /\ alerts = <<>>
  /\ now = StartMs
  /\ resp = NoResp
  /\ cleanup = NoCleanup
  /\ out = NoOut
  /\ reviews = <<>>
  /\ peer = NoPeer

\* const riskLevel = score >= 0.7 ? .. : 'LOW'
Classify ==
  /\ pc = "classify"
  /\ pc' = "classified"
  /\ cur' = [cur EXCEPT !.riskLevel = RiskLevel(cur.score)]
  /\ UNCHANGED <<proc, queue, offset, transactions, alerts, now, resp, cleanup, out, reviews>>
  /\ UNCHANGED peer

ClassifySpec == ClassifyInit /\ [][Classify]_vars

\* every combination of triggered rules, with the boundary amounts
EvalBodies(id) ==
  {With(EmptyTxn,
        [id |-> id, location |-> l, cvvMatch |-> c, avsMatch |-> v, amount |-> a,
         merchant |-> m, category |-> g, device |-> d, isVPN |-> n[1], isTor |-> n[2],
         previousDeclines |-> r, accountAge |-> e, timestamp |-> t]) :
     l \in {Undefined, Location(Str("low"), Str("IN")), Location(Str("high"), Undefined)},
     c \in {Bool(TRUE), Bool(FALSE)},
     v \in {Undefined, Bool(FALSE)},
     a \in {Undefined, Num(50000), Num(75000), Num(100000), Num(150000)},
     m \in {Undefined, Str(<<"PAY*", "CRYPTO_EXCHANGE", " LTD">>)},
     g \in {Undefined, Str("GAMBLING")},
     d \in {Undefined, Str("iPhone"), Str("Emulator")},
     n \in {<<Undefined, Undefined>>, <<Bool(TRUE), Bool(FALSE)>>, <<Undefined, Bool(TRUE)>>},
     r \in {Undefined, Num(2), Num(3)},
     e \in {Undefined, Num(29), Num(30)},
     t \in {Undefined, IsoStr(6 * HourMs - 1), IsoStr(6 * HourMs), BadDateStr}}

\* 22:59:59.999 and 23:00
EvalTimes == {StartMs, StartMs + 1}

EvalInit ==
  /\ proc = "running"
  /\ \E body \in EvalBodies(Str("T9")), t \in EvalTimes :
       /\ Truthy(body.timestamp) => t = StartMs
       /\ queue = <<[value |-> JsonStringify(body)]>>
       /\ now = t
  /\ offset = 0
  /\ pc = "idle"
  /\ cur = NoCur
  /\ transactions = <<>>
  /\ alerts = <<>>
  /\ resp = NoResp
  /\ cleanup = NoCleanup
  /\ out = NoOut
  /\ reviews = <<>>
  /\ peer = NoPeer

EvalSpec == EvalInit /\ [][EachMessage]_vars

\* score, indicators and riskLevel kept in variables of the module: the call
\* that resumes finds what the other call left there
Resume_Shared(saved, running) ==
  IF "score" \in DOMAIN saved /\ "score" \in DOMAIN running
  THEN [saved EXCEPT !.score = running.score, !.indicators = running.indicators,
                     !.riskLevel = running.riskLevel]
  ELSE saved

\* the locals a call finds when it resumes after an await: its own, declared
\* inside eachMessage
Resume(saved, running) == saved

\* the event loop leaves the eachMessage call that is running at its await,
\* or between two messages, and runs the call of the other partition
Switch ==
  /\ proc = "running"
  /\ peer' = [queue |-> queue, offset |-> offset, pc |-> pc, cur |-> cur, out |-> out]
  /\ queue' = peer.queue
  /\ offset' = peer.offset
  /\ pc' = peer.pc
  /\ out' = peer.out
  /\ cur' = Resume(peer.cur, cur)
  /\ UNCHANGED <<proc, transactions, alerts, now, resp, cleanup, reviews>>

\* two partitions with one message each
ConcInit ==
  /\ proc = "running"
  /\ \E a \in Bodies, b \in Bodies :
       /\ queue = <<[value |-> JsonStringify(a)]>>
       /\ peer = [NoPeer EXCEPT !.queue = <<[value |-> JsonStringify(b)]>>]
  /\ offset = 0
  /\ pc = "idle"
  /\ cur = NoCur
  /\ transactions = <<>>
  /\ alerts = <<>>
  /\ now = StartMs
  /\ resp = NoResp
  /\ cleanup = NoCleanup
  /\ out = NoOut
  /\ reviews = <<>>

\* two eachMessage calls interleaved at their awaits
ConcNext == EachMessage \/ SaveTransaction \/ SaveAlert \/ Switch \/ Tick

ConcSpec == ConcInit /\ [][ConcNext]_vars

\* one message of any payload, handled to the end
HandleNext == EachMessage \/ SaveTransaction \/ SaveAlert

HandleSpec == EvalInit /\ [][HandleNext]_vars

(***************************************************************************)
(* Specifications.                                                         *)
(***************************************************************************)
\* the ingestion pipeline and the submission gateway
PipelineNext ==
  \/ KafkaConnected
  \/ KafkaConnectFailed
  \/ Tick
  \/ ForeignPublish
  \/ Submit
  \/ EachMessage
  \/ SaveTransaction
  \/ SaveAlert

PipelineSpec == Init /\ [][PipelineNext]_vars

\* the fetch loop keeps calling eachMessage and every store call settles
PipelineLive ==
  /\ PipelineSpec
  /\ WF_vars(EachMessage)
  /\ WF_vars(SaveTransaction)
  /\ WF_vars(SaveAlert)

\* the pipeline with the alert review
ReviewNext == PipelineNext \/ Review

ReviewSpec == Init /\ [][ReviewNext]_vars

\* the pipeline with the bulk delete
CleanupNext ==
  \/ PipelineNext
  \/ CleanupRequest
  \/ CleanupTransactions
  \/ CleanupAlerts
  \/ CleanupRespond
  \/ CleanupFailed

CleanupSpec == Init /\ [][CleanupNext]_vars

\* every operation
Next ==
  \/ ReviewNext
  \/ CleanupRequest
  \/ CleanupTransactions
  \/ CleanupAlerts
  \/ CleanupRespond
  \/ CleanupFailed

Spec == Init /\ [][Next]_vars

(***************************************************************************)
(* Properties.                                                             *)
(***************************************************************************)
\* the console lines a step adds
NewLines ==
  IF out'.offset = out.offset
  THEN SubSeq(out'.lines, Len(out.lines) + 1, Len(out'.lines))
  ELSE out'.lines

Printed(line) == \E i \in 1..Len(NewLines) : NewLines[i] = line

Last(seq) == seq[Len(seq)]

\* the message at the consumer's offset parses to an object without id and transactionId
HeadLacksId ==
  /\ queue # <<>>
  /\ LET parsed == JsonParse(Head(queue).value)
     IN /\ parsed.ok
        /\ parsed.value # Null
        /\ parsed.value.id = Undefined
        /\ parsed.value.transactionId = Undefined

\* C1: a message whose payload has neither id nor transactionId leaves the
\* transaction and alert collections as they are, starts no write, and is
\* consumed by the step that handles it; no stored record lacks an identifier.
C1_NoIdentifierNoRecord ==
  /\ [](/\ \A i \in 1..Len(transactions) : Truthy(transactions[i].transactionId)
        /\ \A i \in 1..Len(alerts) : Truthy(alerts[i].transactionId))
  /\ [][HeadLacksId =>
          /\ transactions' = transactions
          /\ alerts' = alerts
          /\ pc' = "idle"
          /\ out' # out => (offset' = offset + 1 /\ queue' = Tail(queue))]_vars

\* a message without identifier has been consumed and nothing was stored for it
C1_Witness ==
  /\ offset = 2
  /\ out = [offset |-> 2, lines |-> <<"skip">>]
  /\ Len(transactions) = 1
  /\ transactions[1].msgOffset = 1

\* C2: when the transaction write of a message succeeds the document is
\* stored whatever the score, and the handler goes on to the alert write
\* exactly when the score is >= 0.40; an alert write that the store accepts
\* adds one alert with status PENDING; no alert appears in any other way.
C2_AlertIffThreshold ==
  [][/\ (pc = "saveTxn" /\ Printed("saved")) =>
          /\ Len(transactions') = Len(transactions) + 1
          /\ Last(transactions').transactionId = cur.transactionId
          /\ Last(transactions').mlScore = cur.score
          /\ IF fge(cur.score, Dbl(4, 10))
             THEN pc' = "saveAlert" /\ ~Printed("clean")
             ELSE pc' = "idle" /\ Printed("clean") /\ alerts' = alerts
     /\ (pc = "saveAlert" /\ pc' = "idle" /\ ~Printed("error: StoreError")) =>
          /\ Len(alerts') = Len(alerts) + 1
          /\ Last(alerts').transactionId = cur.transactionId
          /\ Last(alerts').mlScore.score = cur.score
     /\ alerts' # alerts =>
          /\ pc = "saveAlert"
          /\ fge(cur.score, Dbl(4, 10))
          /\ Len(alerts') = Len(alerts) + 1
          /\ SubSeq(alerts', 1, Len(alerts)) = alerts
          /\ Last(alerts').status = Str("PENDING")]_vars

\* a score of exactly 0.40 has raised a PENDING alert, and a message with a
\* score below 0.40 was stored without one
C2_Witness ==
  /\ offset = 2
  /\ pc = "idle"
  /\ \E i, j \in 1..Len(transactions) :
       /\ transactions[i].mlScore = Dbl(4, 10)
       /\ \E k \in 1..Len(alerts) :
            /\ alerts[k].msgOffset = transactions[i].msgOffset
            /\ alerts[k].mlScore.score = Dbl(4, 10)
            /\ alerts[k].status = Str("PENDING")
       /\ transactions[j].mlScore = Dbl(38, 100)
       /\ \A k \in 1..Len(alerts) : alerts[k].msgOffset # transactions[j].msgOffset

(***************************************************************************)
(* The rule table of the evaluator, row by row: condition and weight.      *)
(***************************************************************************)
RowWeight(i) ==
  CASE i = 1 -> Dbl(50, 100)
    [] i = 2 -> Dbl(30, 100)
    [] i = 3 -> Dbl(15, 100)
    [] i = 4 -> Dbl(20, 100)
    [] i = 5 -> Dbl(10, 100)
    [] i = 6 -> Dbl(30, 100)
    [] i = 7 -> Dbl(25, 100)
    [] i = 8 -> Dbl(20, 100)
    [] i = 9 -> Dbl(15, 100)
    [] i = 10 -> Dbl(30, 100)
    [] i = 11 -> Dbl(10, 100)
    [] i = 12 -> Dbl(8, 100)

\* the local hour the time-of-day row looks at: of the timestamp, or of the
\* evaluation time when the payload has none; no hour for a timestamp that
\* is no date
RowHour(txn, nowMs) ==
  IF txn.timestamp = Undefined THEN <<(nowMs \div HourMs) % 24>>
  ELSE IF txn.timestamp.v[1] = "iso" THEN <<(txn.timestamp.v[2] \div HourMs) % 24>>
  ELSE <<>>

RowHolds(i, txn, nowMs) ==
  CASE i = 1 -> txn.location.t = "object" /\ txn.location.v.risk = Str("high")
    [] i = 2 -> txn.cvvMatch = Bool(FALSE)
    [] i = 3 -> txn.avsMatch = Bool(FALSE)
    [] i = 4 -> txn.amount.t = "number" /\ txn.amount.v > 100000
    [] i = 5 -> txn.amount.t = "number" /\ txn.amount.v > 50000 /\ txn.amount.v <= 100000
    [] i = 6 -> /\ txn.merchant.t = "string"
                /\ \E k \in 1..Len(txn.merchant.v) :
                     txn.merchant.v[k] \in {"UNKNOWN_MERCHANT", "CRYPTO_EXCHANGE",
                                            "OFFSHORE_CASINO", "HIGH_RISK_VENDOR"}
    [] i = 7 -> /\ txn.category.t = "string"
                /\ txn.category.v \in {"GAMBLING", "CRYPTO", "WIRE_TRANSFER", "GIFT_CARDS"}
    [] i = 8 -> /\ txn.device.t = "string"
                /\ txn.device.v \in {"Emulator", "Unknown Device", "Rooted Android",
                                     "Jailbroken iPhone"}
    [] i = 9 -> txn.isVPN = Bool(TRUE) \/ txn.isTor = Bool(TRUE)
    [] i = 10 -> txn.previousDeclines.t = "number" /\ txn.previousDeclines.v >= 3
    [] i = 11 -> txn.accountAge.t = "number" /\ txn.accountAge.v < 30
    [] i = 12 -> LET h == RowHour(txn, nowMs)
                 IN h # <<>> /\ (h[1] >= 23 \/ h[1] <= 5)

\* the weights of the rows 1..n that hold, added in double precision in row order
RECURSIVE TableSum(_, _, _)
TableSum(n, txn, nowMs) ==
  IF n = 0 THEN Zero
  ELSE IF RowHolds(n, txn, nowMs)
  THEN fadd(TableSum(n - 1, txn, nowMs), RowWeight(n))
  ELSE TableSum(n - 1, txn, nowMs)

\* the payload {location.risk: "high", cvvMatch: false, amount: 150000} with an id
IsExample(txn) ==
  txn = With(EmptyTxn, [id |-> txn.id, location |-> Location(Str("high"), Undefined),
                        cvvMatch |-> Bool(FALSE), amount |-> Num(150000)])

\* the evaluation has run on the message at the offset
Evaluated == pc = "saveTxn"

\* C3 as stated: the score is the sum of the weights of the rows that hold,
\* and the example payload gets score 1.00 and CRITICAL.
C3_AsStated ==
  Evaluated =>
    /\ cur.score = TableSum(12, cur.txn, now)
    /\ IsExample(cur.txn) => (cur.score = Dbl(100, 100) /\ cur.riskLevel = "CRITICAL")

\* C3 (amended): the score is the sum, taken in double precision in row
\* order, of the weights of the rows that hold; the example payload, which
\* has no timestamp, gets 1.00 when it is evaluated at an hour from 6 to 22
\* and 1.08 at the other hours, when the time-of-day row holds too; it is
\* CRITICAL in both cases.
C3_ScoreIsTableSum ==
  Evaluated =>
    /\ cur.score = TableSum(12, cur.txn, now)
    /\ IsExample(cur.txn) =>
         /\ cur.riskLevel = "CRITICAL"
         /\ cur.score = IF RowHolds(12, cur.txn, now) THEN Dbl(108, 100) ELSE Dbl(100, 100)

\* the example payload evaluated by day: 1.00, CRITICAL
C3_Witness ==
  /\ Evaluated
  /\ IsExample(cur.txn)
  /\ ~RowHolds(12, cur.txn, now)
  /\ cur.score = Dbl(100, 100)
  /\ Len(cur.indicators) = 3

\* C4: the level is CRITICAL from 0.70 up, HIGH from 0.50 up to below 0.70,
\* MEDIUM from 0.30 up to below 0.50, LOW below 0.30; each threshold itself
\* belongs to the higher level and the values just below it to the lower.
C4_ClassifierBoundaries ==
  pc = "classified" =>
    LET s == cur.score
        level == cur.riskLevel
    IN /\ level = "CRITICAL" <=> fge(s, Dbl(70, 100))
       /\ level = "HIGH" <=> (fge(s, Dbl(50, 100)) /\ ~fge(s, Dbl(70, 100)))
       /\ level = "MEDIUM" <=> (fge(s, Dbl(30, 100)) /\ ~fge(s, Dbl(50, 100)))
       /\ level = "LOW" <=> ~fge(s, Dbl(30, 100))
       /\ s = Dbl(6999, 10000) => level = "HIGH"
       /\ s = Dbl(4999, 10000) => level = "MEDIUM"
       /\ s = Dbl(2999, 10000) => level = "LOW"

\* the score 0.50 has been classified HIGH
C4_Witness == pc = "classified" /\ cur.score = Dbl(50, 100) /\ cur.riskLevel = "HIGH"

\* the timestamp a stored transaction is to carry: the payload's when it is
\* there and is a date, the processing time otherwise
EffectiveTimestamp(ts, nowMs) ==
  IF ts.t = "string" /\ ts.v[1] = "iso" THEN Date(ts.v[2]) ELSE Date(nowMs)

\* C5: for a message with an identifier the transaction document carries
\* the payload's timestamp when that is present and parseable and the
\* processing time otherwise, and it is persisted whenever the store does
\* not refuse the write, whatever the score and the timestamp field.
C5_StoredWithEffectiveTimestamp ==
  [][/\ (pc = "idle" /\ pc' = "saveTxn") =>
          cur'.doc.timestamp = EffectiveTimestamp(cur'.txn.timestamp, now)
     /\ (pc = "saveTxn" /\ pc' # "saveTxn" /\ ~Printed("error: StoreError")) =>
          transactions' = Append(transactions, cur.doc)]_vars

ErrorLines ==
  {"error: SyntaxError", "error: TypeError", "error: ValidationError", "error: StoreError"}

NoAlertFor(d) == \A i \in 1..Len(alerts) : alerts[i].msgOffset # d

\* C6: every message delivered to the consumer is eventually resolved,
\* whatever happened to the messages before it; the score and risk level of
\* a message are those of its payload and the clock alone; a step in which
\* eachMessage catches an error leaves the consumer running and idle with
\* no locals, commits the offset and changes neither collection, so the
\* next message starts from the same handler state as after a success.
C6_ErrorsContained ==
  /\ \A n \in 1..MaxMsgs : (offset + Len(queue) >= n) ~> (offset >= n)
  /\ [][(pc = "idle" /\ pc' = "saveTxn") =>
          LET txn == JsonParse(Head(queue).value).value
          IN \A a \in {Evaluate(txn, now)} :
               /\ cur'.txn = txn
               /\ cur'.score = a.score
               /\ cur'.indicators = a.indicators
               /\ cur'.riskLevel = a.riskLevel]_vars
  /\ [][(\E e \in ErrorLines : Printed(e)) =>
          /\ proc' = "running"
          /\ pc' = "idle"
          /\ cur' = NoCur
          /\ offset' = offset + 1
          /\ queue' = Tail(queue)
          /\ transactions' = transactions
          /\ alerts' = alerts]_vars

\* the alert write of the first message failed and the second message was
\* handled to the end, alert included
C6_Witness ==
  /\ offset = 2
  /\ pc = "idle"
  /\ Len(transactions) = 2
  /\ transactions[1].msgOffset = 1
  /\ fge(transactions[1].mlScore, Dbl(4, 10))
  /\ Len(alerts) = 1
  /\ alerts[1].msgOffset = 2
  /\ out = [offset |-> 2, lines |-> <<"processing", "saved", "alert">>]

\* C7: the offset only moves forward, one message at a time; every call of
\* eachMessage that ends, with or without an error, commits its message; a
\* document is only ever written for the message in progress, so none is
\* written for a message already consumed; no delivery has two transaction
\* documents or two alerts.
C7_AtMostOnce ==
  /\ [](/\ \A i, j \in 1..Len(transactions) :
             i # j => transactions[i].msgOffset # transactions[j].msgOffset
        /\ \A i, j \in 1..Len(alerts) : i # j => alerts[i].msgOffset # alerts[j].msgOffset)
  /\ [][/\ offset' \in {offset, offset + 1}
        /\ (pc # "idle" /\ pc' = "idle") => (offset' = offset + 1 /\ queue' = Tail(queue))
        /\ \A i \in (Len(transactions) + 1)..Len(transactions') :
             transactions'[i].msgOffset = offset + 1 /\ pc = "saveTxn"
        /\ \A i \in (Len(alerts) + 1)..Len(alerts') :
             alerts'[i].msgOffset = offset + 1 /\ pc = "saveAlert"]_vars

\* the transaction write of a message failed and the message is consumed
C7_Witness ==
  /\ offset = 1
  /\ pc = "idle"
  /\ queue = <<>>
  /\ transactions = <<>>
  /\ out = [offset |-> 1, lines |-> <<"processing", "error: StoreError">>]

\* C8: no step writes a transaction and an alert together, and a message
\* that is consumed without an alert never gets one later.
C8_WritesNotAtomic ==
  [][/\ ~(transactions' # transactions /\ alerts' # alerts)
     /\ \A d \in 1..offset : NoAlertFor(d) => NoAlertFor(d)']_vars

\* a consumed message with score >= 0.40 whose transaction is stored and
\* whose alert is not
C8_Witness ==
  /\ pc = "idle"
  /\ \E i \in 1..Len(transactions) :
       /\ transactions[i].msgOffset <= offset
       /\ fge(transactions[i].mlScore, Dbl(4, 10))
       /\ NoAlertFor(transactions[i].msgOffset)
  /\ out.lines = <<"processing", "saved", "error: StoreError">>

CountById(coll, id) == Cardinality({i \in 1..Len(coll) : coll[i].transactionId = id})

\* C9: a transaction write that succeeds adds one document with the
\* message's transactionId however many documents with that transactionId
\* are stored already, and so does an alert write that succeeds.
C9_NoDeduplication ==
  [][/\ (pc = "saveTxn" /\ Printed("saved")) =>
          CountById(transactions', cur.transactionId)
            = CountById(transactions, cur.transactionId) + 1
     /\ (pc = "saveAlert" /\ Printed("alert")) =>
          CountById(alerts', cur.transactionId)
            = CountById(alerts, cur.transactionId) + 1]_vars

\* the same payload was delivered twice: two transactions and two alerts
\* with its transactionId
C9_Witness ==
  /\ Len(transactions) = 2
  /\ transactions[1].transactionId = transactions[2].transactionId
  /\ Len(alerts) = 2
  /\ alerts[1].transactionId = transactions[1].transactionId
  /\ alerts[2].transactionId = transactions[1].transactionId
  /\ alerts[1].transaction = alerts[2].transaction

Unreviewed(a) ==
  /\ a.status = Str("PENDING")
  /\ a.action = Undefined
  /\ a.comments = Undefined
  /\ a.assignedTo = Undefined
  /\ a.reviewedAt = Undefined

Reviewed(a) ==
  /\ a.action # Undefined
  /\ a.status = a.action
  /\ a.comments # Undefined
  /\ a.assignedTo # Undefined
  /\ a.reviewedAt # Undefined

\* C10: a review of an alertId that no stored alert has is answered with
\* data null, where a review of a stored alert is answered with the updated
\* alert, and it leaves the alerts as they are; a review of a stored alert
\* sets status, action, comments, assignedTo and reviewedAt of one alert
\* with that alertId in one step, so every alert is either unreviewed or
\* has all five set.
C10_ReviewNotFoundOrWhole ==
  /\ [](\A i \in 1..Len(alerts) : Unreviewed(alerts[i]) \/ Reviewed(alerts[i]))
  /\ [][(reviews' # reviews \/ (resp' # resp /\ resp'.op = "review")) =>
          LET id == resp'.alertId
              b == resp'.body
              known == \E i \in 1..Len(alerts) : alerts[i].alertId = id
          IN /\ resp'.op = "review"
             /\ resp'.status \in {200, 500}
             /\ resp'.status = 500 => alerts' = alerts
             /\ (resp'.status = 200 /\ ~known) => (resp'.data = Null /\ alerts' = alerts)
             /\ (resp'.status = 200 /\ known) =>
                  /\ resp'.data # Null
                  /\ resp'.data.alertId = id
                  /\ resp'.data.status = b.action
                  /\ resp'.data.action = b.action
                  /\ resp'.data.comments = b.comments
                  /\ resp'.data.assignedTo = b.assignedTo
                  /\ resp'.data.reviewedAt = Date(now)
                  /\ \E i \in 1..Len(alerts) :
                       /\ alerts[i].alertId = id
                       /\ alerts' = [alerts EXCEPT ![i] = resp'.data]
                       /\ resp'.data = [alerts[i] EXCEPT !.status = b.action,
                                          !.action = b.action, !.comments = b.comments,
                                          !.assignedTo = b.assignedTo,
                                          !.reviewedAt = Date(now)]]_vars

\* with an alert stored, a review of an unknown alertId was answered with
\* data null and the alert is as it was created
C10_Witness ==
  /\ reviews = <<>>
  /\ resp.op = "review"
  /\ resp.status = 200
  /\ resp.data = Null
  /\ Len(alerts) = 1
  /\ Unreviewed(alerts[1])

\* the requests in the log that updated the alert at index i: those for an
\* alertId whose first alert is that one
UpdatesOf(i) ==
  {k \in 1..Len(reviews) :
     /\ reviews[k].alertId = alerts[i].alertId
     /\ FindOne(alerts, alerts[i].alertId) = i}

Latest(ks) == CHOOSE k \in ks : \A j \in ks : j <= k

\* C11: an alert that no review request has updated is as it was created;
\* otherwise its status and action are the action of the latest request that
\* updated it, its comments and assignedTo are those of that request and
\* reviewedAt is the time of that request, whatever earlier requests set and
\* whatever the status was when the request came.
C11_LastReviewWins ==
  \A i \in 1..Len(alerts) :
    IF UpdatesOf(i) = {}
    THEN Unreviewed(alerts[i])
    ELSE LET last == reviews[Latest(UpdatesOf(i))]
         IN /\ alerts[i].status = last.body.action
            /\ alerts[i].action = last.body.action
            /\ alerts[i].comments = last.body.comments
            /\ alerts[i].assignedTo = last.body.assignedTo
            /\ alerts[i].reviewedAt = Date(last.at)

\* an alert was approved and then blocked: it is BLOCKED with the second note
C11_Witness ==
  /\ Len(alerts) = 1
  /\ Len(reviews) = 2
  /\ UpdatesOf(1) = {1, 2}
  /\ reviews[1].body.action = Str("APPROVED")
  /\ reviews[2].body.action = Str("BLOCKED")
  /\ alerts[1].status = Str("BLOCKED")
  /\ alerts[1].comments = Str(<<"note", 2>>)

\* a cleanup request was answered in this step
CleanupAnswered == resp' # resp /\ resp'.op = "cleanup"

\* C12: documents leave a collection only in a delete step of a cleanup
\* request that carried the secret, and that step empties the collection; a
\* request without a password (none, or the empty string) is answered 401
\* MISSING_PASSWORD and one with another password 403 INVALID_PASSWORD, with
\* both collections unchanged and no delete started; a request is answered
\* 200 only with the secret and after both delete steps.
C12_CleanupNeedsSecret ==
  /\ [](cleanup.pc # "idle" => cleanup.password = Str("140301"))
  /\ [][/\ Len(transactions') < Len(transactions) =>
            (cleanup.pc = "deleteTransactions" /\ transactions' = <<>>)
        /\ Len(alerts') < Len(alerts) => (cleanup.pc = "deleteAlerts" /\ alerts' = <<>>)
        /\ (cleanup.pc = "deleteTransactions" /\ cleanup'.pc = "deleteAlerts") =>
            transactions' = <<>>
        /\ (cleanup.pc = "deleteAlerts" /\ cleanup'.pc = "count") => alerts' = <<>>
        /\ CleanupAnswered =>
            /\ resp'.status \in {200, 401, 403, 500}
            /\ resp'.status = 401 <=> resp'.password \in {Undefined, Str("")}
            /\ resp'.status = 403 <=> resp'.password \notin {Undefined, Str(""), Str("140301")}
            /\ resp'.status = 401 => resp'.error = "MISSING_PASSWORD"
            /\ resp'.status = 403 => resp'.error = "INVALID_PASSWORD"
            /\ resp'.status \in {401, 403} =>
                 /\ transactions' = transactions
                 /\ alerts' = alerts
                 /\ cleanup' = cleanup
                 /\ cleanup.pc = "idle"
            /\ resp'.status = 200 => cleanup.pc = "count"]_vars

\* a request with a wrong password was refused while a transaction and an
\* alert are stored, and both are still there
C12_Witness ==
  /\ resp.op = "cleanup"
  /\ resp.status = 403
  /\ resp.password = Str("letmein")
  /\ cleanup.pc = "idle"
  /\ Len(transactions) = 1
  /\ Len(alerts) = 1

\* a submit request was answered in this step
SubmitAnswered ==
  /\ resp'.op = "submit"
  /\ \/ resp' # resp
     \/ /\ Len(queue') > Len(queue)
        /\ Last(queue').value \notin ForeignValues

\* C13: the step that answers a submit request acknowledges success exactly
\* when it adds a message to the topic; the message is one, it is the last of
\* the topic and parses back to the submitted payload; on failure the topic
\* is unchanged and the answer is 500; the step touches neither the handler
\* nor a collection, and no later step of the handler changes the answer.
C13_SubmitAcknowledgesPublish ==
  [][/\ SubmitAnswered =>
          /\ resp'.success <=> queue' # queue
          /\ resp'.success =>
               /\ resp'.status = 200
               /\ Len(queue') = Len(queue) + 1
               /\ SubSeq(queue', 1, Len(queue)) = queue
               /\ JsonParse(Last(queue').value) = [ok |-> TRUE, value |-> resp'.body]
          /\ ~resp'.success => resp'.status = 500
          /\ UNCHANGED <<pc, cur, offset, transactions, alerts, out>>
     /\ (pc' # pc \/ offset' # offset) => resp' = resp]_vars

\* the payload without an identifier was acknowledged as a success, and the
\* acknowledgement stands after the handler has skipped the message
C13_Witness ==
  /\ resp.op = "submit"
  /\ resp.success
  /\ resp.body = NoIdBody
  /\ offset = 1
  /\ queue = <<>>
  /\ out = [offset |-> 1, lines |-> <<"skip">>]
  /\ transactions = <<>>

\* C14: no two stored alerts have the same alertId.
C14_AlertIdsUnique ==
  \A i, j \in 1..Len(alerts) : i # j => alerts[i].alertId # alerts[j].alertId

\* what the amount is to contribute: 0.20 above 100000, 0.10 above 50000 and
\* up to 100000, nothing otherwise
AmountShare(txn) ==
  IF txn.amount.t = "number" /\ txn.amount.v > 100000 THEN Dbl(20, 100)
  ELSE IF txn.amount.t = "number" /\ txn.amount.v > 50000 THEN Dbl(10, 100)
  ELSE Zero

\* the sum of the rows 1..n with the two amount rows replaced by one share w
RECURSIVE SumWithShare(_, _, _, _)
SumWithShare(n, txn, nowMs, w) ==
  IF n = 0 THEN Zero
  ELSE IF n = 5 THEN SumWithShare(4, txn, nowMs, w)
  ELSE IF n = 4
  THEN IF w = Zero THEN SumWithShare(3, txn, nowMs, w)
       ELSE fadd(SumWithShare(3, txn, nowMs, w), w)
  ELSE IF RowHolds(n, txn, nowMs)
  THEN fadd(SumWithShare(n - 1, txn, nowMs, w), RowWeight(n))
  ELSE SumWithShare(n - 1, txn, nowMs, w)

AmountIndicators(indicators) ==
  {i \in 1..Len(indicators) : indicators[i].code = "UNUSUAL_TRANSACTION_AMOUNT"}

\* C15: an evaluation yields at most one UNUSUAL_TRANSACTION_AMOUNT
\* indicator: the high-amount one above 100000, the medium-amount one above
\* 50000 and up to 100000, none otherwise; the score is the sum of the other
\* rules with 0.20, 0.10 or nothing in the place of the amount rule, so that
\* a payload on which no other rule fires scores exactly that share.
C15_AmountRulesExclusive ==
  Evaluated =>
    LET txn == cur.txn
        amt == AmountIndicators(cur.indicators)
        share == AmountShare(txn)
    IN /\ Cardinality(amt) <= 1
       /\ Cardinality(amt) = 1 <=> share # Zero
       /\ \A i \in amt :
            cur.indicators[i].message[1]
              = IF share = Dbl(20, 100) THEN "High amount" ELSE "Medium amount"
       /\ cur.score = SumWithShare(12, txn, now, share)
       /\ (\A n \in (1..3) \cup (6..12) : ~RowHolds(n, txn, now)) => cur.score = share

\* the amount 75000 alone: one medium-amount indicator and a score of 0.10
C15_Witness ==
  /\ Evaluated
  /\ cur.txn.amount = Num(75000)
  /\ cur.score = Dbl(10, 100)
  /\ Len(cur.indicators) = 1
  /\ cur.indicators[1].message = <<"Medium amount", 75000>>

\* C16: a step either leaves every stored transaction as it is and where it
\* is, adding at most one behind them, which only the handler's transaction
\* write does, or it is the delete step of a cleanup request that carried the
\* secret and removes them all.
C16_TransactionsImmutable ==
  [][\/ /\ Len(transactions') >= Len(transactions)
        /\ SubSeq(transactions', 1, Len(transactions)) = transactions
        /\ transactions' # transactions =>
             /\ pc = "saveTxn"
             /\ Len(transactions') = Len(transactions) + 1
             /\ UNCHANGED <<resp, reviews, cleanup, alerts>>
     \/ /\ cleanup.pc = "deleteTransactions"
        /\ cleanup.password = Str("140301")
        /\ cleanup'.pc = "deleteAlerts"
        /\ transactions' = <<>>]_vars

\* the transaction of the first message is stored unchanged after a second
\* message with the same transactionId was handled and an alert was reviewed
C16_Witness ==
  /\ Len(transactions) = 2
  /\ transactions[1].msgOffset = 1
  /\ transactions[2].msgOffset = 2
  /\ transactions[1].transactionId = transactions[2].transactionId
  /\ reviews # <<>>
  /\ cleanup.pc = "idle"
  /\ offset = 2

\* the indicator code of each row of the rule table
RowCode(i) ==
  CASE i = 1 -> "HIGH_RISK_GEOGRAPHY"
    [] i = 2 -> "CVV_VERIFICATION_FAILED"
    [] i = 3 -> "ADDRESS_VERIFICATION_FAILED"
    [] i = 4 -> "UNUSUAL_TRANSACTION_AMOUNT"
    [] i = 5 -> "UNUSUAL_TRANSACTION_AMOUNT"
    [] i = 6 -> "HIGH_RISK_MERCHANT"
    [] i = 7 -> "HIGH_RISK_MERCHANT_CATEGORY"
    [] i = 8 -> "SUSPICIOUS_DEVICE"
    [] i = 9 -> "VPN_OR_PROXY_DETECTED"
    [] i = 10 -> "CARD_TESTING_PATTERN"
    [] i = 11 -> "NEW_ACCOUNT_RISK"
    [] i = 12 -> "UNUSUAL_TRANSACTION_TIME"

\* the codes of the rows 1..n that hold, in the order of the table
RECURSIVE ExpectedCodes(_, _, _)
ExpectedCodes(n, txn, nowMs) ==
  IF n = 0 THEN <<>>
  ELSE IF RowHolds(n, txn, nowMs)
  THEN Append(ExpectedCodes(n - 1, txn, nowMs), RowCode(n))
  ELSE ExpectedCodes(n - 1, txn, nowMs)

Codes(indicators) == [k \in 1..Len(indicators) |-> indicators[k].code]

Messages(indicators) == [k \in 1..Len(indicators) |-> indicators[k].message]

\* C17: the indicators of an evaluation are those of the rows that hold, one
\* each, in the order of the table; the fraudIndicators of the transaction
\* document are their messages in that order, and the reasons of the alert
\* stored for the same message are the same indicators in that order.
C17_IndicatorOrder ==
  /\ Evaluated =>
       /\ Codes(cur.indicators) = ExpectedCodes(12, cur.txn, now)
       /\ cur.doc.fraudIndicators = Messages(cur.indicators)
  /\ \A i \in 1..Len(alerts) :
       /\ Codes(alerts[i].reasons) = ExpectedCodes(12, alerts[i].transaction, now)
       /\ \E j \in 1..Len(transactions) :
            transactions[j].msgOffset = alerts[i].msgOffset
       /\ \A j \in 1..Len(transactions) :
            transactions[j].msgOffset = alerts[i].msgOffset =>
              /\ Len(transactions[j].fraudIndicators) = Len(alerts[i].reasons)
              /\ transactions[j].fraudIndicators = Messages(alerts[i].reasons)

\* every rule fired: the alert has the eleven reasons and the transaction
\* their eleven messages
C17_Witness ==
  /\ Len(alerts) = 1
  /\ Len(transactions) = 1
  /\ Len(alerts[1].reasons) = 11
  /\ Len(transactions[1].fraudIndicators) = 11
  /\ alerts[1].reasons[1].code = "HIGH_RISK_GEOGRAPHY"
  /\ alerts[1].reasons[11].code = "UNUSUAL_TRANSACTION_TIME"

\* the clock readings of the model
Times == StartMs..(StartMs + MaxTicks)

\* the submitted payload with the given identifier
BodyById(id) == CHOOSE b \in Bodies : Or(b.id, b.transactionId) = id

\* the locals of a call on payload txn, waiting at the given await, are
\* those of an evaluation of txn alone
LocalsOf(c, at) ==
  \E t \in Times :
    \E a \in {Evaluate(c.txn, t)} :
      /\ c.transactionId = Or(c.txn.id, c.txn.transactionId)
      /\ c.score = a.score
      /\ c.indicators = a.indicators
      /\ c.riskLevel = a.riskLevel
      /\ IF at = "saveTxn"
         THEN c.doc = TransactionDoc(c.txn, c.transactionId, a, 1)
         ELSE \E ms \in Times, sfx \in RandSuffixes :
                c.doc = AlertDoc([txn |-> c.txn, transactionId |-> c.transactionId,
                                  score |-> a.score, indicators |-> a.indicators,
                                  riskLevel |-> a.riskLevel], ms, sfx, 1)

\* C18: with two eachMessage calls interleaved at their awaits in every
\* order, the locals of each call in progress, every stored transaction and
\* every stored alert are those of an evaluation of the call's own payload
\* alone, as when the message is handled with no other call in between (the
\* alertId and createdAt apart); a message yields at most one transaction
\* and one alert.
C18_NoSharedState ==
  /\ pc # "idle" => LocalsOf(cur, pc)
  /\ peer.pc # "idle" => LocalsOf(peer.cur, peer.pc)
  /\ Len(transactions) <= 2
  /\ Len(alerts) <= Len(transactions)
  /\ \A i \in 1..Len(transactions) :
       LET d == transactions[i]
           b == BodyById(d.transactionId)
       IN \E t \in Times : d = TransactionDoc(b, d.transactionId, Evaluate(b, t), 1)
  /\ \A i \in 1..Len(alerts) :
       LET x == alerts[i]
           b == BodyById(x.transactionId)
       IN /\ \E t \in Times, ms \in Times, sfx \in RandSuffixes :
               \E a \in {Evaluate(b, t)} :
                 x = AlertDoc([txn |-> b, transactionId |-> x.transactionId,
                               score |-> a.score, indicators |-> a.indicators,
                               riskLevel |-> a.riskLevel], ms, sfx, 1)
          /\ \E j \in 1..Len(transactions) :
               /\ transactions[j].transactionId = x.transactionId
               /\ transactions[j].mlScore = x.mlScore.score
               /\ transactions[j].riskLevel = x.riskLevel

\* one call waits for its alert write while the call for another payload
\* waits for its transaction write
C18_Witness ==
  /\ pc = "saveAlert"
  /\ peer.pc = "saveTxn"
  /\ cur.transactionId = Str("T2")
  /\ peer.cur.transactionId = Str("T1")
  /\ Len(transactions) = 1

\* C19: every stored alert has a stored transaction with its transactionId,
\* its score and its riskLevel.
C19_AlertHasTransaction ==
  \A i \in 1..Len(alerts) :
    \E j \in 1..Len(transactions) :
      /\ transactions[j].transactionId = alerts[i].transactionId
      /\ transactions[j].mlScore = alerts[i].mlScore.score
      /\ transactions[j].riskLevel = alerts[i].riskLevel

\* the level that belongs to a score
LevelOf(score) ==
  IF fge(score, Dbl(70, 100)) THEN "CRITICAL"
  ELSE IF fge(score, Dbl(50, 100)) THEN "HIGH"
  ELSE IF fge(score, Dbl(30, 100)) THEN "MEDIUM" ELSE "LOW"

\* C20: the riskLevel of every stored transaction and of every stored alert
\* is the level of the score stored with it; every stored alert has a score
\* >= 0.40 and a riskLevel of MEDIUM, HIGH or CRITICAL; a review request
\* changes no alert's transactionId, score, riskLevel, reasons or payload,
\* and neither adds nor removes an alert.
C20_RiskLevelOfScore ==
  /\ [](/\ \A i \in 1..Len(transactions) :
             transactions[i].riskLevel = LevelOf(transactions[i].mlScore)
        /\ \A i \in 1..Len(alerts) :
             /\ alerts[i].riskLevel = LevelOf(alerts[i].mlScore.score)
             /\ fge(alerts[i].mlScore.score, Dbl(40, 100))
             /\ alerts[i].riskLevel \in {"MEDIUM", "HIGH", "CRITICAL"})
  /\ [][(reviews' # reviews \/ (resp' # resp /\ resp'.op = "review")) =>
          /\ Len(alerts') = Len(alerts)
          /\ \A i \in 1..Len(alerts) :
               /\ alerts'[i].alertId = alerts[i].alertId
               /\ alerts'[i].transactionId = alerts[i].transactionId
               /\ alerts'[i].mlScore = alerts[i].mlScore
               /\ alerts'[i].riskLevel = alerts[i].riskLevel
               /\ alerts'[i].reasons = alerts[i].reasons
               /\ alerts'[i].transaction = alerts[i].transaction
               /\ alerts'[i].createdAt = alerts[i].createdAt]_vars

\* a reviewed alert of score 0.40 is still MEDIUM, and a transaction of
\* score 0.38 is stored as MEDIUM without an alert
C20_Witness ==
  /\ Len(alerts) = 1
  /\ Reviewed(alerts[1])
  /\ alerts[1].mlScore.score = Dbl(40, 100)
  /\ alerts[1].riskLevel = "MEDIUM"
  /\ \E j \in 1..Len(transactions) :
       transactions[j].mlScore = Dbl(38, 100) /\ transactions[j].riskLevel = "MEDIUM"

====
